---------------------------- MODULE Spec2Model ----------------------------
(***************************************************************************)
(* A model of the C-linkage bridge src/c_api/wrapper/arrow_c_api.cc        *)
(* between the OCaml runtime and the Arrow C++ library.                    *)
(*                                                                         *)
(* A bridge call is one action.  Its observable result is the record ret:  *)
(*   op      the entry point that was called                               *)
(*   outcome "return"            the call returned to the caller           *)
(*           "failwith"          caml_failwith raised Failure msg          *)
(*           "invalid_argument"  caml_invalid_argument raised              *)
(*                               Invalid_argument msg                      *)
(*           "abort"             the process was terminated                *)
(*           "segfault"          a null or released object was used        *)
(*   msg     the message carried by the host exception                     *)
(*   value   what was returned: <<>> is the null pointer, <<v>> a handle   *)
(*           to v                                                          *)
(* The pass-through flags use_threads and mmap change nothing observable   *)
(* in the bridge and are left out.                                         *)
(***************************************************************************)
EXTENDS Integers, Sequences, FiniteSets, TLC

VARIABLES
  ret,       \* the result of the last bridge call
  file,      \* the Parquet file on disk that the calls name
  pr,        \* the ParquetReader handle held by the caller
  nexts,     \* parquet_reader_next calls since the handle was opened
  closes,    \* parquet_reader_close calls since the handle was opened
  table,     \* the columns of the table behind the caller's TablePtr
  nchunks,   \* the caller's int that receives the chunk count
  num_rows,  \* the caller's int64_t that receives the Parquet row count
  heap,      \* live native allocations made by the bridge
  owned,     \* descriptor arrays returned to the caller and not yet freed
  pre,       \* the caller's values and the heap (for table handles: tables)
             \* as they were when the last call began
  tables,    \* the live TablePtr handles of the caller: handle -> rows
  args       \* the arguments of the last open, bulk read, slice or write call

vars == <<ret, file, pr, nexts, closes, table, nchunks, num_rows, heap,
          owned, pre, tables, args>>

readerVars == <<file, pr, nexts, closes>>
columnVars == <<table, nchunks, num_rows, heap, owned, pre>>
tableVars  == <<tables>>

----------------------------------------------------------------------------
(* Bounds of the model *)

MaxGroups == 2

MaxBatches == 2

MaxNexts == 6

MaxCloses == 3

\* rows a record batch can hold
BatchRows == {1, 3}

\* column indices of every Parquet file of the model
FileCols == {0, 1}

----------------------------------------------------------------------------
(* Helpers *)

Min(a, b) == IF a < b THEN a ELSE b

SeqsUpTo(S, n) == UNION {[1..k -> S] : k \in 0..n}

RECURSIVE SumSeq(_)
SumSeq(s) == IF s = <<>> THEN 0 ELSE Head(s) + SumSeq(Tail(s))

RECURSIVE Concat(_)
Concat(ss) == IF ss = <<>> THEN <<>> ELSE Head(ss) \o Concat(Tail(ss))

Range(s) == {s[i] : i \in DOMAIN s}

None == <<>>

Some(x) == <<x>>

----------------------------------------------------------------------------
(* Failure translation: lines 27-52 *)

\* char err[256]; snprintf(err, 255, ...)
ErrBufLen == 255

\* snprintf(buf, n, "%s", s) keeps at most n - 1 characters of s
snprintf(n, s) == IF Len(s) > n - 1 THEN SubSeq(s, 1, n - 1) ELSE s

\* an arrow::Status: OK, or an error with its ToString()
StatusOK == [ok |-> TRUE, str |-> ""]

StatusError(str) == [ok |-> FALSE, str |-> str]

\* The completion of a protected body: it either returned a value or threw
\* a std::exception whose what() is the message.
Returned(v) == [thrown |-> FALSE, what |-> "", value |-> v]

Thrown(what) == [thrown |-> TRUE, what |-> what, value |-> None]

\* status_exn and ok_exn: a failed status is thrown as std::invalid_argument
\* carrying Status::ToString(); otherwise the body goes on with `rest`.
status_exn(st, rest) == IF ~st.ok THEN Thrown(st.str) ELSE rest

ok_exn(st, rest) == IF ~st.ok THEN Thrown(st.str) ELSE rest

\* Live native allocations, by kind: malloc'ed ArrowArray arrays, exported
\* chunk descriptors not yet released, malloc'ed ArrowSchema structs and
\* strdup'ed error messages.
EmptyHeap == [arrays |-> 0, descriptors |-> 0, schemas |-> 0, strings |-> 0]

MaxLeaks == 2

\* __ocaml_protect_err = strdup(e.what()): the copy is never freed, since
\* caml_failwith does not return.
strdup_err(h, body) ==
  IF body.thrown THEN [h EXCEPT !.strings = @ + 1] ELSE h

\* OCAML_BEGIN_PROTECT_EXN ... OCAML_END_PROTECT_EXN: a thrown exception is
\* caught, its message copied with strdup, truncated into err[256] and
\* raised with caml_failwith.
OCAML_PROTECT_EXN(op, body) ==
  IF body.thrown
  THEN [op |-> op, outcome |-> "failwith",
        msg |-> snprintf(ErrBufLen, body.what), value |-> None]
  ELSE [op |-> op, outcome |-> "return", msg |-> "", value |-> body.value]

\* caml_failwith called outside a protected body
caml_failwith(op, msg) ==
  [op |-> op, outcome |-> "failwith", msg |-> msg, value |-> None]

\* caml_invalid_argument raises the host exception Invalid_argument
caml_invalid_argument(op, msg) ==
  [op |-> op, outcome |-> "invalid_argument", msg |-> msg, value |-> None]

NoCall == [op |-> "", outcome |-> "return", msg |-> "", value |-> None]

\* No bridge call can be made once the process has died.
Alive == ret.outcome \notin {"abort", "segfault"}

----------------------------------------------------------------------------
(* Parquet files on disk *)

\* The batches of a file are numbered rows: batch b of row group g holds the
\* rows that follow those of all earlier batches, in file order.
RowsBefore(shape, g, b) ==
  SumSeq([j \in 1..(g - 1) |-> SumSeq(shape[j])])
    + SumSeq([j \in 1..(b - 1) |-> shape[g][j]])

RowGroupsOf(shape) ==
  [g \in 1..Len(shape) |->
    [b \in 1..Len(shape[g]) |->
      [i \in 1..shape[g][b] |-> RowsBefore(shape, g, b) + i]]]

FileShapes == SeqsUpTo(SeqsUpTo(BatchRows, MaxBatches), MaxGroups)

\* kind: "missing" (no such path), "notparquet" (no Parquet footer) or
\* "parquet"; truncated: the last batch of the last row group cannot be
\* decoded.
ParquetFiles ==
  {[kind |-> "parquet", groups |-> RowGroupsOf(s), truncated |-> t] :
     s \in FileShapes, t \in BOOLEAN}

MissingFile == [kind |-> "missing", groups |-> <<>>, truncated |-> FALSE]

NotParquetFile == [kind |-> "notparquet", groups |-> <<>>, truncated |-> FALSE]

Files == ParquetFiles \cup {MissingFile, NotParquetFile}

\* arrow::Table::FromRecordBatches of one batch restricted to cols
TableOfBatch(batch, cols) == [rows |-> batch, cols |-> cols]

----------------------------------------------------------------------------
(* Streaming Parquet reader: lines 307-360 *)

NoHandle == [alloc |-> FALSE, reader |-> None, batch_reader |-> None]

\* the row-group list filled from the last group down to the first
all_groups_reversed(f) == [i \in 1..Len(f.groups) |-> Len(f.groups) + 1 - i]

\* std::vector<int> all_groups(num_row_groups); std::iota(..., 0)
all_groups(f) == [i \in 1..Len(f.groups) |-> i]

\* the columns a reader decodes: col_idxs when ncols # 0, else all of them
ColumnsRead(col_idxs) == IF Len(col_idxs) # 0 THEN Range(col_idxs) ELSE FileCols

\* FileReader::GetRecordBatchReader(row_groups, [columns,] &batch_reader):
\* an iterator over the batches of the listed row groups, in list order.
GetRecordBatchReader(f, row_groups, col_idxs) ==
  IF ~(ColumnsRead(col_idxs) \subseteq FileCols)
  THEN [st |-> StatusError("Invalid: Column index out of bounds"),
        batch_reader |-> None]
  ELSE [st |-> StatusOK,
        batch_reader |->
          Some([rest |-> Concat([i \in 1..Len(row_groups) |->
                                   f.groups[row_groups[i]]]),
                cols |-> ColumnsRead(col_idxs),
                truncated |-> /\ f.truncated
                              /\ row_groups # <<>>
                              /\ row_groups[Len(row_groups)] = Len(f.groups)
                              /\ f.groups[Len(f.groups)] # <<>>])]

\* RecordBatchReader::ReadNext(&batch): the next batch, or a null batch at
\* the end of the stream; the iterator moves past a batch it delivered.
ReadNext(it) ==
  IF it.rest = <<>>
  THEN [st |-> StatusOK, batch |-> None, it |-> it]
  ELSE IF it.truncated /\ Len(it.rest) = 1
  THEN [st |-> StatusError("IOError: Unexpected end of stream"),
        batch |-> None, it |-> it]
  ELSE [st |-> StatusOK, batch |-> Some(Head(it.rest)),
        it |-> [it EXCEPT !.rest = Tail(it.rest)]]

\* the protected body of parquet_reader_open; a returned value is the new
\* ParquetReader
parquet_reader_open_body(f, col_idxs) ==
  IF f.kind = "missing"
  THEN Thrown("IOError: Failed to open local file")
  ELSE IF f.kind = "notparquet"
  THEN Thrown("Parquet magic bytes not found in footer")
  ELSE LET got == GetRecordBatchReader(f, all_groups(f), col_idxs)
       IN status_exn(got.st,
            Returned(Some([alloc |-> TRUE, reader |-> Some("FileReader"),
                           batch_reader |-> got.batch_reader])))

parquet_reader_open(col_idxs) ==
  /\ Alive
  /\ ~pr.alloc
  /\ heap.strings < MaxLeaks
  /\ LET body == parquet_reader_open_body(file, col_idxs)
     IN /\ ret' = OCAML_PROTECT_EXN("parquet_reader_open", body)
        /\ heap' = strdup_err(heap, body)
        /\ pr' = IF body.thrown THEN pr ELSE body.value[1]
  /\ nexts' = 0
  /\ closes' = 0
  /\ args' = [col_idxs |-> col_idxs]
  /\ UNCHANGED <<file, table, nchunks, num_rows, owned, pre, tables>>

\* the protected part of parquet_reader_next, lines 336-350; using a null
\* batch_reader is a null dereference
parquet_reader_next_protected(p) ==
  IF p.batch_reader = None
  THEN [ret |-> [op |-> "parquet_reader_next", outcome |-> "segfault",
                 msg |-> "", value |-> None],
        pr |-> p, thrown |-> FALSE]
  ELSE LET got == ReadNext(p.batch_reader[1])
           body == status_exn(got.st,
                     IF got.batch = None
                     THEN Returned(None)
                     ELSE Returned(Some(TableOfBatch(got.batch[1],
                                                     got.it.cols))))
       IN [ret |-> OCAML_PROTECT_EXN("parquet_reader_next", body),
           pr |-> [p EXCEPT !.batch_reader = Some(got.it)],
           thrown |-> body.thrown]

\* parquet_reader_next without the check of line 334
parquet_reader_next_unchecked(p) == parquet_reader_next_protected(p)

parquet_reader_next_result(p) ==
  IF p.batch_reader = None
  THEN [ret |-> caml_failwith("parquet_reader_next",
                              "reader has already been closed"),
        pr |-> p, thrown |-> FALSE]
  ELSE parquet_reader_next_protected(p)

parquet_reader_next ==
  /\ Alive
  /\ pr.alloc
  /\ nexts < MaxNexts
  /\ heap.strings < MaxLeaks
  /\ LET r == parquet_reader_next_result(pr)
     IN /\ ret' = r.ret
        /\ pr' = r.pr
        /\ heap' = strdup_err(heap, r)
  /\ nexts' = nexts + 1
  /\ UNCHANGED <<file, closes, args, table, nchunks, num_rows, owned, pre,
                 tables>>

\* parquet_reader_close that releases the handle as well
parquet_reader_close_deletes(p) == NoHandle

\* pr->batch_reader.reset(); pr->reader.reset();
parquet_reader_close_result(p) ==
  [p EXCEPT !.batch_reader = None, !.reader = None]

parquet_reader_close ==
  /\ Alive
  /\ pr.alloc
  /\ closes < MaxCloses
  /\ pr' = parquet_reader_close_result(pr)
  /\ ret' = [op |-> "parquet_reader_close", outcome |-> "return",
             msg |-> "", value |-> None]
  /\ closes' = closes + 1
  /\ UNCHANGED <<file, nexts, args, columnVars, tableVars>>

\* delete pr;  The history of the handle (nexts, closes) ends with it.
parquet_reader_free ==
  /\ Alive
  /\ pr.alloc
  /\ pr' = NoHandle
  /\ ret' = [op |-> "parquet_reader_free", outcome |-> "return",
             msg |-> "", value |-> None]
  /\ nexts' = 0
  /\ closes' = 0
  /\ UNCHANGED <<file, args, columnVars, tableVars>>

ColIdxs == {<<>>, <<1>>, <<2>>}

InitReader ==
  /\ ret = NoCall
  /\ file \in Files
  /\ pr = NoHandle
  /\ nexts = 0
  /\ closes = 0
  /\ table = <<>>
  /\ nchunks = 0
  /\ num_rows = 0
  /\ heap = EmptyHeap
  /\ owned = None
  /\ pre = [nchunks |-> 0, num_rows |-> 0, heap |-> EmptyHeap]
  /\ tables = <<>>
  /\ args = <<>>

NextReader ==
  \/ \E c \in ColIdxs : parquet_reader_open(c)
  \/ parquet_reader_next
  \/ parquet_reader_close
  \/ parquet_reader_free

SpecReader == InitReader /\ [][NextReader]_vars

----------------------------------------------------------------------------
(* Claims about the streaming reader, checked under SpecReader *)

\* the batches of a file in row-group order, b1..bk
BatchesInFileOrder(f) == Concat(f.groups)

ClosedHandle == [alloc |-> TRUE, reader |-> None, batch_reader |-> None]

\* C1: on a handle that is opened and not freed, a parquet_reader_next issued
\* after parquet_reader_close has been called at least once fails with
\* "reader has already been closed", returns no table handle and leaves the
\* released iterator untouched.
C1_NextAfterCloseFails ==
  (ret.op = "parquet_reader_next" /\ closes >= 1) =>
    /\ ret.outcome = "failwith"
    /\ ret.msg = "reader has already been closed"
    /\ ret.value = None
    /\ pr = ClosedHandle

C1_Witness ==
  /\ ret.op = "parquet_reader_next"
  /\ closes >= 2
  /\ nexts >= 3
  /\ file.kind = "parquet"
  /\ Len(BatchesInFileOrder(file)) >= 3
  /\ ret.outcome = "failwith"

\* C5: on a file whose row groups yield the batches b1..bk, with no close in
\* between, the i-th parquet_reader_next (1 <= i <= k) returns a new handle
\* to a table of exactly batch bi, restricted to the requested columns (all
\* columns if none was requested), and the (k+1)-th and later calls return
\* the null pointer without failing.
C5_NextYieldsBatchesInOrder ==
  (/\ ret.op = "parquet_reader_next"
   /\ closes = 0
   /\ file.kind = "parquet"
   /\ ~file.truncated) =>
    LET b == BatchesInFileOrder(file)
    IN /\ ret.outcome = "return"
       /\ nexts <= Len(b) =>
            /\ ret.value # None
            /\ ret.value[1].rows = b[nexts]
            /\ ret.value[1].cols = IF args.col_idxs = <<>>
                                    THEN FileCols
                                    ELSE Range(args.col_idxs)
       /\ nexts > Len(b) => ret.value = None

C5_Witness ==
  /\ ret.op = "parquet_reader_next"
  /\ closes = 0
  /\ file.kind = "parquet"
  /\ ~file.truncated
  /\ Len(file.groups) = 2
  /\ Len(BatchesInFileOrder(file)) >= 3
  /\ nexts = Len(BatchesInFileOrder(file)) + 1
  /\ ret.outcome = "return"
  /\ ret.value = None

\* C6: parquet_reader_close on a handle that is not freed, whether Open or
\* already Closed, never fails and leaves the handle in the one Closed state:
\* iterator and file reader released, the handle still allocated.
C6_CloseIdempotent ==
  ret.op = "parquet_reader_close" =>
    /\ ret.outcome = "return"
    /\ pr = ClosedHandle

C6_Witness ==
  /\ ret.op = "parquet_reader_close"
  /\ closes >= 2
  /\ nexts >= 1
  /\ pr = ClosedHandle

----------------------------------------------------------------------------
(* Bulk Parquet read: lines 362-413 *)

MaxOnlyFirst == 7

\* arrow::Table::FromRecordBatches(batches): needs at least one batch, whose
\* schema becomes the schema of the table
FromRecordBatches(batches) ==
  IF Len(batches) = 0
  THEN [st |-> StatusError(
                 "Invalid: Must pass at least one record batch to get schema"),
        table |-> None]
  ELSE [st |-> StatusOK,
        table |-> Some([rows |-> Concat([i \in 1..Len(batches) |->
                                           batches[i].rows]),
                        cols |-> batches[1].cols])]

\* FileReader::ReadTable([columns,] &table): the whole file
ReadTable(f, col_idxs) ==
  IF ~(ColumnsRead(col_idxs) \subseteq FileCols)
  THEN [st |-> StatusError("Invalid: Column index out of bounds"),
        table |-> None]
  ELSE IF f.truncated /\ f.groups # <<>> /\ f.groups[Len(f.groups)] # <<>>
  THEN [st |-> StatusError("IOError: Unexpected end of stream"),
        table |-> None]
  ELSE [st |-> StatusOK,
        table |-> Some([rows |-> Concat(Concat(f.groups)),
                        cols |-> ColumnsRead(col_idxs)])]

\* RecordBatch::Slice(0, length)
BatchSlice(batch, length) ==
  [batch EXCEPT !.rows = SubSeq(batch.rows, 1, Min(length, Len(batch.rows)))]

\* the while loop of lines 389-402 over one row group's iterator
RECURSIVE ReadWhile(_, _, _)
ReadWhile(it, only_first, batches) ==
  IF ~(only_first > 0)
  THEN [thrown |-> FALSE, what |-> "", only_first |-> only_first,
        batches |-> batches]
  ELSE LET got == ReadNext(it)
       IN IF ~got.st.ok
          THEN [thrown |-> TRUE, what |-> got.st.str,
                only_first |-> only_first, batches |-> batches]
          ELSE IF got.batch = None
          THEN [thrown |-> FALSE, what |-> "", only_first |-> only_first,
                batches |-> batches]
          ELSE LET batch == [rows |-> got.batch[1], cols |-> it.cols]
               IN IF only_first <= Len(batch.rows)
                  THEN [thrown |-> FALSE, what |-> "", only_first |-> 0,
                        batches |->
                          Append(batches, BatchSlice(batch, only_first))]
                  ELSE ReadWhile(got.it, only_first - Len(batch.rows),
                                 Append(batches, batch))

\* the for loop of lines 381-405 from row group row_group_idx on
RECURSIVE ReadRowGroups(_, _, _, _, _)
ReadRowGroups(f, col_idxs, row_group_idx, only_first, batches) ==
  IF ~(row_group_idx <= Len(f.groups))
  THEN [thrown |-> FALSE, what |-> "", only_first |-> only_first,
        batches |-> batches]
  ELSE LET got == GetRecordBatchReader(f, <<row_group_idx>>, col_idxs)
       IN IF ~got.st.ok
          THEN [thrown |-> TRUE, what |-> got.st.str,
                only_first |-> only_first, batches |-> batches]
          ELSE LET w == ReadWhile(got.batch_reader[1], only_first, batches)
               IN IF w.thrown \/ w.only_first <= 0
                  THEN w
                  ELSE ReadRowGroups(f, col_idxs, row_group_idx + 1,
                                     w.only_first, w.batches)

\* the protected body of parquet_read_table
parquet_read_table_body(f, col_idxs, only_first) ==
  IF f.kind = "missing"
  THEN Thrown("IOError: Failed to open local file")
  ELSE IF f.kind = "notparquet"
  THEN Thrown("Invalid: Parquet magic bytes not found in footer")
  ELSE IF only_first < 0
  THEN LET got == ReadTable(f, col_idxs)
       IN status_exn(got.st, Returned(got.table))
  ELSE LET loop == ReadRowGroups(f, col_idxs, 1, only_first, <<>>)
       IN IF loop.thrown
          THEN Thrown(loop.what)
          ELSE LET table_ == FromRecordBatches(loop.batches)
               IN ok_exn(table_.st, Returned(table_.table))

\* The file and the arguments are those drawn by InitRead.
parquet_read_table ==
  /\ Alive
  /\ heap.strings < MaxLeaks
  /\ LET body == parquet_read_table_body(file, args.col_idxs,
                                         args.only_first)
     IN /\ ret' = OCAML_PROTECT_EXN("parquet_read_table", body)
        /\ heap' = strdup_err(heap, body)
  /\ UNCHANGED <<readerVars, args, table, nchunks, num_rows, owned, pre,
                 tables>>

----------------------------------------------------------------------------
(* Schema of a Parquet file: lines 84-110 *)

\* the protected body of parquet_schema; *num_rows is written after the
\* last statement that can throw
parquet_schema_body(f, h, rows) ==
  IF f.kind = "missing"
  THEN [thrown |-> TRUE, what |-> "IOError: Failed to open local file",
        value |-> None, num_rows |-> rows, heap |-> h]
  ELSE IF f.kind = "notparquet"
  THEN [thrown |-> TRUE,
        what |-> "Invalid: Parquet magic bytes not found in footer",
        value |-> None, num_rows |-> rows, heap |-> h]
  ELSE [thrown |-> FALSE, what |-> "",
        value |-> Some([cols |-> FileCols]),
        num_rows |-> Len(Concat(Concat(f.groups))),
        heap |-> [h EXCEPT !.schemas = @ + 1]]

parquet_schema ==
  /\ Alive
  /\ heap.strings < MaxLeaks
  /\ heap.schemas = 0
  /\ LET body == parquet_schema_body(file, heap, num_rows)
     IN /\ ret' = OCAML_PROTECT_EXN("parquet_schema", body)
        /\ heap' = strdup_err(body.heap, body)
        /\ num_rows' = body.num_rows
  /\ pre' = [nchunks |-> nchunks, num_rows |-> num_rows, heap |-> heap]
  /\ UNCHANGED <<readerVars, args, table, nchunks, owned, tables>>

\* schema->release(schema); free(schema);
free_schema ==
  /\ Alive
  /\ heap.schemas > 0
  /\ heap' = [heap EXCEPT !.schemas = @ - 1]
  /\ ret' = [op |-> "free_schema", outcome |-> "return", msg |-> "",
             value |-> None]
  /\ UNCHANGED <<readerVars, args, table, nchunks, num_rows, owned, pre,
                 tables>>

----------------------------------------------------------------------------
(* The bulk read and the schema of one file *)

InitRead ==
  /\ file \in Files
  /\ args \in [col_idxs : ColIdxs, only_first : -1..MaxOnlyFirst]
  /\ ret = NoCall
  /\ pr = NoHandle
  /\ nexts = 0
  /\ closes = 0
  /\ table = <<>>
  /\ nchunks = 0
  /\ num_rows = 0
  /\ heap = EmptyHeap
  /\ owned = None
  /\ pre = [nchunks |-> 0, num_rows |-> 0, heap |-> EmptyHeap]
  /\ tables = <<>>

NextRead ==
  \/ parquet_read_table
  \/ parquet_schema
  \/ free_schema

SpecRead == InitRead /\ [][NextRead]_vars

\* all rows of a file, in file order
RowsInFileOrder(f) == Concat(Concat(f.groups))

\* C2: for every Parquet file (any number of row groups, zero included) and
\* every only_first >= 0 (zero included), parquet_read_table succeeds and
\* returns a table of exactly the first min(only_first, total_rows) rows of
\* the file, in file order.
C2_OnlyFirstReturnsPrefix ==
  (/\ ret.op = "parquet_read_table"
   /\ file.kind = "parquet"
   /\ ~file.truncated
   /\ ColumnsRead(args.col_idxs) \subseteq FileCols
   /\ args.only_first >= 0) =>
    /\ ret.outcome = "return"
    /\ ret.value # None
    /\ ret.value[1].rows =
         SubSeq(RowsInFileOrder(file), 1,
                Min(args.only_first, Len(RowsInFileOrder(file))))


----------------------------------------------------------------------------
(* Typed column extraction: lines 112-198 *)

MaxChunks == 3

\* arrow::Type::type of the chunks of the model
ChunkTypes ==
  {"INT64", "DOUBLE", "STRING", "DATE32", "TIMESTAMP", "BOOL", "LARGE_STRING"}

\* the numeric value of an arrow::Type::type
TypeId(t) ==
  CASE t = "BOOL" -> 1
    [] t = "INT64" -> 9
    [] t = "DOUBLE" -> 12
    [] t = "STRING" -> 13
    [] t = "DATE32" -> 16
    [] t = "TIMESTAMP" -> 18
    [] t = "LARGE_STRING" -> 34

\* DataType::ToString()
TypeToString(t) ==
  CASE t = "BOOL" -> "bool"
    [] t = "INT64" -> "int64"
    [] t = "DOUBLE" -> "double"
    [] t = "STRING" -> "string"
    [] t = "DATE32" -> "date32[day]"
    [] t = "TIMESTAMP" -> "timestamp[ns]"
    [] t = "LARGE_STRING" -> "large_string"

Digit(d) == SubSeq("0123456789", d + 1, d + 1)

RECURSIVE NatToString(_)
NatToString(n) ==
  IF n < 10 THEN Digit(n) ELSE NatToString(n \div 10) \o Digit(n % 10)

\* std::to_string(int), "%d"
to_string(n) == IF n < 0 THEN "-" \o NatToString(-n) ELSE NatToString(n)

\* char err[128]; snprintf(err, 127, ...)
ColumnIdxErrBufLen == 127

\* check_column_idx: the message of the failure, or no failure
check_column_idx(column_idx, n_cols) ==
  IF column_idx < 0 \/ column_idx >= n_cols
  THEN Some(snprintf(ColumnIdxErrBufLen,
              "invalid column index " \o to_string(column_idx)
                \o " (ncols: " \o to_string(n_cols) \o ")"))
  ELSE None

\* lines 123-152: the expected arrow type of tag dt and its name
KnownTag(dt) == dt \in 0..5

expected_type(dt) ==
  CASE dt = 0 -> "INT64"
    [] dt = 1 -> "DOUBLE"
    [] dt = 2 -> "STRING"
    [] dt = 3 -> "DATE32"
    [] dt = 4 -> "TIMESTAMP"
    [] dt = 5 -> "BOOL"

expected_type_str(dt) ==
  CASE dt = 0 -> "int64"
    [] dt = 1 -> "float64"
    [] dt = 2 -> "utf8"
    [] dt = 3 -> "date32"
    [] dt = 4 -> "timestamp"
    [] dt = 5 -> "bool"

\* Table::GetColumnByName: the column of that name, or null
GetColumnByName(t, column_name) ==
  IF \E i \in DOMAIN t : t[i].name = column_name
  THEN Some(t[CHOOSE i \in DOMAIN t : t[i].name = column_name])
  ELSE None

\* the loop of lines 168-176 that checks only the first chunk's type
RECURSIVE ExportChunksFirstOnly(_, _, _, _, _)
ExportChunksFirstOnly(chunks, i, dt, out, h) ==
  IF ~(i <= Len(chunks))
  THEN [thrown |-> FALSE, what |-> "", out |-> out, heap |-> h]
  ELSE IF i = 1 /\ chunks[i] # expected_type(dt)
  THEN [thrown |-> TRUE,
        what |-> "expected type with " \o expected_type_str(dt) \o " (id "
                   \o to_string(TypeId(expected_type(dt))) \o ") got "
                   \o TypeToString(chunks[i]),
        out |-> out, heap |-> h]
  ELSE ExportChunksFirstOnly(chunks, i + 1, dt, Append(out, chunks[i]),
                             [h EXCEPT !.descriptors = @ + 1])

\* the loop of lines 168-176 from chunk i on: out holds the descriptors
\* exported so far
RECURSIVE ExportChunks(_, _, _, _, _)
ExportChunks(chunks, i, dt, out, h) ==
  IF ~(i <= Len(chunks))
  THEN [thrown |-> FALSE, what |-> "", out |-> out, heap |-> h]
  ELSE IF chunks[i] # expected_type(dt)
  THEN [thrown |-> TRUE,
        what |-> "expected type with " \o expected_type_str(dt) \o " (id "
                   \o to_string(TypeId(expected_type(dt))) \o ") got "
                   \o TypeToString(chunks[i]),
        out |-> out, heap |-> h]
  ELSE ExportChunks(chunks, i + 1, dt, Append(out, chunks[i]),
                    [h EXCEPT !.descriptors = @ + 1])

\* the protected body of table_chunked_column_: column_name is None for the
\* null pointer.  n is the value *nchunks holds, h the heap.
table_chunked_column_body(t, column_name, column_idx, n, dt, h) ==
  IF ~KnownTag(dt)
  THEN [thrown |-> TRUE, what |-> "unknown datatype " \o to_string(dt),
        value |-> None, nchunks |-> n, heap |-> h]
  ELSE LET array == IF column_name # None
                    THEN GetColumnByName(t, column_name[1])
                    ELSE Some(t[column_idx + 1])
       IN IF array = None
          THEN [thrown |-> TRUE,
                what |-> "cannot find column " \o column_name[1],
                value |-> None, nchunks |-> n, heap |-> h]
          ELSE LET chunks == array[1].chunks
                   loop == ExportChunks(chunks, 1, dt, <<>>,
                                        [h EXCEPT !.arrays = @ + 1])
               IN [thrown |-> loop.thrown, what |-> loop.what,
                   value |-> IF loop.thrown THEN None ELSE Some(loop.out),
                   nchunks |-> Len(chunks), heap |-> loop.heap]

\* what a call of table_chunked_column_ leaves behind
table_chunked_column_(op, column_name, column_idx) ==
  LET body == table_chunked_column_body(table, column_name, column_idx,
                                        nchunks, args.dt, heap)
  IN /\ ret' = OCAML_PROTECT_EXN(op, body)
     /\ heap' = strdup_err(body.heap, body)
     /\ nchunks' = body.nchunks
     /\ owned' = IF body.thrown THEN owned ELSE Some(Len(body.value[1]))

table_chunked_column ==
  /\ Alive
  /\ args.fn = "table_chunked_column"
  /\ heap.strings < MaxLeaks
  /\ owned = None
  /\ LET bad == check_column_idx(args.column_idx, Len(table))
     IN IF bad # None
        THEN /\ ret' = caml_failwith("table_chunked_column", bad[1])
             /\ UNCHANGED <<heap, nchunks, owned>>
        ELSE table_chunked_column_("table_chunked_column", None,
                                   args.column_idx)
  /\ pre' = [nchunks |-> nchunks, num_rows |-> num_rows, heap |-> heap]
  /\ UNCHANGED <<readerVars, args, table, num_rows, tables>>

table_chunked_column_by_name ==
  /\ Alive
  /\ args.fn = "table_chunked_column_by_name"
  /\ heap.strings < MaxLeaks
  /\ owned = None
  /\ table_chunked_column_("table_chunked_column_by_name",
                           Some(args.col_name), 0)
  /\ pre' = [nchunks |-> nchunks, num_rows |-> num_rows, heap |-> heap]
  /\ UNCHANGED <<readerVars, args, table, num_rows, tables>>

\* free_chunked_column(arrays, nchunks) on the array the caller got: the
\* first nchunks descriptors are released, then the array
free_chunked_column ==
  /\ Alive
  /\ owned # None
  /\ heap' = [heap EXCEPT !.descriptors = @ - nchunks,
                          !.arrays = @ - 1]
  /\ owned' = None
  /\ ret' = [op |-> "free_chunked_column", outcome |-> "return", msg |-> "",
             value |-> None]
  /\ UNCHANGED <<readerVars, args, table, nchunks, num_rows, pre, tables>>

\* Tables of one or two columns: column "a" holds any chunks, at index 0 or
\* after a one-chunk int64 column "b".
ChunkSeqs == SeqsUpTo(ChunkTypes, MaxChunks)

ColumnTables ==
  {<<[name |-> "a", chunks |-> c]>> : c \in ChunkSeqs}
    \cup {<<[name |-> "b", chunks |-> <<"INT64">>],
            [name |-> "a", chunks |-> c]>> : c \in ChunkSeqs}

ColumnArgs ==
  [fn : {"table_chunked_column"}, column_idx : -1..2, dt : -1..6]
    \cup [fn : {"table_chunked_column_by_name"}, col_name : {"a", "b", "c"},
          dt : -1..6]

InitColumn ==
  /\ ret = NoCall
  /\ file = MissingFile
  /\ pr = NoHandle
  /\ nexts = 0
  /\ closes = 0
  /\ table \in ColumnTables
  /\ args \in ColumnArgs
  /\ nchunks = -1
  /\ num_rows = 0
  /\ heap = EmptyHeap
  /\ owned = None
  /\ pre = [nchunks |-> -1, num_rows |-> 0, heap |-> EmptyHeap]
  /\ tables = <<>>

NextColumn ==
  \/ table_chunked_column
  \/ table_chunked_column_by_name
  \/ free_chunked_column

SpecColumn == InitColumn /\ [][NextColumn]_vars

----------------------------------------------------------------------------
(* Claims about column extraction, checked under SpecColumn *)

ExtractionOps == {"table_chunked_column", "table_chunked_column_by_name"}

\* whether the column the call names exists, and that column
ColumnExists ==
  IF args.fn = "table_chunked_column"
  THEN args.column_idx >= 0 /\ args.column_idx < Len(table)
  ELSE \E i \in DOMAIN table : table[i].name = args.col_name

CalledColumn ==
  IF args.fn = "table_chunked_column"
  THEN table[args.column_idx + 1]
  ELSE table[CHOOSE i \in DOMAIN table : table[i].name = args.col_name]

\* the type tags of the bridge: the arrow type and the name of each
TagType == <<"INT64", "DOUBLE", "STRING", "DATE32", "TIMESTAMP", "BOOL">>

TagName == <<"int64", "float64", "utf8", "date32", "timestamp", "bool">>

Contains(str, sub) ==
  \E i \in 1..(Len(str) - Len(sub) + 1) :
    SubSeq(str, i, i + Len(sub) - 1) = sub

Mismatches(chunks, dt) == {i \in DOMAIN chunks : chunks[i] # TagType[dt + 1]}

FirstMismatch(chunks, dt) ==
  CHOOSE i \in Mismatches(chunks, dt) :
    \A j \in Mismatches(chunks, dt) : i <= j

\* C4: with a recognised tag 0..5 on an existing column of n chunks, the
\* call returns n descriptors and chunk count n if and only if every chunk
\* has the expected type; a mismatch at any position fails the whole call
\* with a message naming the expected and the actual type and returns no
\* descriptor array.
C4_EveryChunkTypeChecked ==
  (/\ ret.op \in ExtractionOps
   /\ args.dt \in 0..5
   /\ ColumnExists) =>
    LET chunks == CalledColumn.chunks
    IN IF Mismatches(chunks, args.dt) = {}
       THEN /\ ret.outcome = "return"
            /\ ret.value # None
            /\ Len(ret.value[1]) = Len(chunks)
            /\ nchunks = Len(chunks)
       ELSE /\ ret.outcome = "failwith"
            /\ ret.value = None
            /\ Contains(ret.msg, TagName[args.dt + 1])
            /\ Contains(ret.msg,
                 TypeToString(chunks[FirstMismatch(chunks, args.dt)]))

C4_Witness ==
  /\ ret.op \in ExtractionOps
  /\ args.dt \in 0..5
  /\ ColumnExists
  /\ Len(CalledColumn.chunks) = 3
  /\ Mismatches(CalledColumn.chunks, args.dt) = {3}
  /\ ret.outcome = "failwith"

\* C9: when a call with an out-parameter fails (table_chunked_column,
\* table_chunked_column_by_name with *nchunks, parquet_schema with
\* *num_rows), the out-parameter holds the value it held before the call.
C9_FailureLeavesOutParam ==
  (/\ ret.op \in ExtractionOps \cup {"parquet_schema"}
   /\ ret.outcome # "return") =>
    /\ nchunks = pre.nchunks
    /\ num_rows = pre.num_rows

\* C10: when column extraction fails on a type mismatch at some chunk, every
\* native allocation the call made (the descriptor array, the descriptors
\* exported so far, the copy of the error message) has been released: the
\* live allocations are those that were live before the call.
C10_FailureReleasesAllocations ==
  (/\ ret.op \in ExtractionOps
   /\ args.dt \in 0..5
   /\ ColumnExists
   /\ Mismatches(CalledColumn.chunks, args.dt) # {}
   /\ ret.outcome = "failwith") =>
    heap = pre.heap

----------------------------------------------------------------------------
(* Table handles, CSV read and table writers: lines 200-211, 276-305,      *)
(* 433-451, 488-510                                                        *)

MaxRows == 3

MaxHandles == 2

\* A TablePtr is an index into tables; tables[h] is Some(rows) while the
\* handle is live and None once it has been freed.
LiveHandles == {h \in DOMAIN tables : tables[h] # None}

\* compression_of_int with every selector one codec too far
compression_of_int_shifted(compression) ==
  CASE compression = 0 -> "SNAPPY"
    [] compression = 1 -> "GZIP"
    [] compression = 2 -> "BROTLI"
    [] compression = 3 -> "ZSTD"
    [] compression = 4 -> "LZ4"
    [] compression = 5 -> "LZ4_FRAME"
    [] compression = 6 -> "LZO"
    [] compression = 7 -> "BZ2"
    [] OTHER -> "UNCOMPRESSED"

\* compression_of_int: the arrow::Compression::type of a selector
compression_of_int(compression) ==
  IF compression = 1 THEN "SNAPPY"
  ELSE IF compression = 2 THEN "GZIP"
  ELSE IF compression = 3 THEN "BROTLI"
  ELSE IF compression = 4 THEN "ZSTD"
  ELSE IF compression = 5 THEN "LZ4"
  ELSE IF compression = 6 THEN "LZ4_FRAME"
  ELSE IF compression = 7 THEN "LZO"
  ELSE IF compression = 8 THEN "BZ2"
  ELSE "UNCOMPRESSED"

\* the protected body of parquet_write_table and of feather_write_table:
\* the file written, or the failure to open the output stream
write_table_body(format, writable, rows, chunk_size, compression) ==
  IF ~writable
  THEN Thrown("IOError: Failed to open local file")
  ELSE Returned(Some([format |-> format, rows |-> rows,
                      chunk_size |-> chunk_size,
                      compression |-> compression_of_int(compression)]))

parquet_write_table(h, writable, chunk_size, compression) ==
  /\ Alive
  /\ h \in LiveHandles
  /\ heap.strings < MaxLeaks
  /\ LET body == write_table_body("parquet", writable, tables[h][1],
                                  chunk_size, compression)
     IN /\ ret' = OCAML_PROTECT_EXN("parquet_write_table", body)
        /\ heap' = strdup_err(heap, body)
  /\ args' = [table |-> h, compression |-> compression]
  /\ pre' = tables
  /\ UNCHANGED <<readerVars, table, nchunks, num_rows, owned, tables>>

feather_write_table(h, writable, chunk_size, compression) ==
  /\ Alive
  /\ h \in LiveHandles
  /\ heap.strings < MaxLeaks
  /\ LET body == write_table_body("feather", writable, tables[h][1],
                                  chunk_size, compression)
     IN /\ ret' = OCAML_PROTECT_EXN("feather_write_table", body)
        /\ heap' = strdup_err(heap, body)
  /\ args' = [table |-> h, compression |-> compression]
  /\ pre' = tables
  /\ UNCHANGED <<readerVars, table, nchunks, num_rows, owned, tables>>

\* csv_read_table on a path that is missing, holds rows that do not parse
\* ("malformed") or holds the rows 1..n: Result::ValueOrDie() on the failed
\* Read() terminates the process
csv_read_table_result(csv) ==
  IF csv.kind = "missing"
  THEN [ret |-> OCAML_PROTECT_EXN("csv_read_table",
                  Thrown("IOError: Failed to open local file")),
        thrown |-> TRUE]
  ELSE IF csv.kind = "malformed"
  THEN [ret |-> [op |-> "csv_read_table", outcome |-> "abort",
                 msg |-> "", value |-> None],
        thrown |-> FALSE]
  ELSE [ret |-> OCAML_PROTECT_EXN("csv_read_table",
                  Returned(Some(csv.rows))),
        thrown |-> FALSE]

csv_read_table(csv) ==
  /\ Alive
  /\ Len(tables) < MaxHandles
  /\ heap.strings < MaxLeaks
  /\ LET r == csv_read_table_result(csv)
     IN /\ ret' = r.ret
        /\ heap' = strdup_err(heap, r)
        /\ tables' = IF r.ret.outcome = "return" /\ r.ret.value # None
                     THEN Append(tables, r.ret.value)
                     ELSE tables
  /\ args' = [csv |-> csv.kind]
  /\ pre' = tables
  /\ UNCHANGED <<readerVars, table, nchunks, num_rows, owned>>

\* Table::Slice(offset, length) for offset >= 0 within the table: the rows
\* offset .. offset+length-1, cut at the end of the table
Slice(rows, offset, length) ==
  SubSeq(rows, offset + 1, Min(offset + length, Len(rows)))

\* table_slice without the check of line 490
table_slice_unchecked_length(rows, offset, length, checked) ==
  IF offset < 0
  THEN caml_invalid_argument("table_slice", "negative offset")
  ELSE [op |-> "table_slice", outcome |-> "return", msg |-> "",
        value |-> Some(Slice(rows, Min(offset, Len(rows)), length))]

\* table_slice on a table of these rows.  An offset beyond the table is
\* refused by a check inside the library that ends the process where the
\* library was built with it (checked), and gives an empty table otherwise.
table_slice_result(rows, offset, length, checked) ==
  IF offset < 0
  THEN caml_invalid_argument("table_slice", "negative offset")
  ELSE IF length < 0
  THEN caml_invalid_argument("table_slice", "negative length")
  ELSE IF offset > Len(rows) /\ checked
  THEN [op |-> "table_slice", outcome |-> "abort", msg |-> "",
        value |-> None]
  ELSE [op |-> "table_slice", outcome |-> "return", msg |-> "",
        value |-> Some(Slice(rows, Min(offset, Len(rows)), length))]

table_slice(h, offset, length, checked) ==
  /\ Alive
  /\ h \in LiveHandles
  /\ Len(tables) < MaxHandles
  /\ LET r == table_slice_result(tables[h][1], offset, length, checked)
     IN /\ ret' = r
        /\ tables' = IF r.outcome = "return"
                     THEN Append(tables, r.value)
                     ELSE tables
  /\ args' = [table |-> h, offset |-> offset, length |-> length]
  /\ pre' = tables
  /\ UNCHANGED <<readerVars, table, nchunks, num_rows, heap, owned>>

\* table_num_rows: h = 0 is the null handle
table_num_rows(h) ==
  /\ Alive
  /\ h \in LiveHandles \cup {0}
  /\ ret' = [op |-> "table_num_rows", outcome |-> "return", msg |-> "",
             value |-> Some(IF h # 0 THEN Len(tables[h][1]) ELSE 0)]
  /\ args' = [table |-> h]
  /\ pre' = tables
  /\ UNCHANGED <<readerVars, table, nchunks, num_rows, heap, owned, tables>>

\* free_table: h = 0 is the null handle
free_table(h) ==
  /\ Alive
  /\ h \in LiveHandles \cup {0}
  /\ tables' = IF h # 0 THEN [tables EXCEPT ![h] = None] ELSE tables
  /\ ret' = [op |-> "free_table", outcome |-> "return", msg |-> "",
             value |-> None]
  /\ args' = [table |-> h]
  /\ pre' = tables
  /\ UNCHANGED <<readerVars, table, nchunks, num_rows, heap, owned>>

RowsUpTo(n) == [i \in 1..n |-> i]

CsvFiles ==
  {[kind |-> "missing", rows |-> <<>>], [kind |-> "malformed", rows |-> <<>>]}
    \cup {[kind |-> "csv", rows |-> RowsUpTo(n)] : n \in 0..MaxRows}

InitTable ==
  /\ ret = NoCall
  /\ file = MissingFile
  /\ pr = NoHandle
  /\ nexts = 0
  /\ closes = 0
  /\ table = <<>>
  /\ args = <<>>
  /\ nchunks = 0
  /\ num_rows = 0
  /\ heap = EmptyHeap
  /\ owned = None
  /\ pre = <<>>
  /\ tables = <<>>

\* the builds of the library that differ on this slice
LibraryBuilds(h, offset) ==
  IF offset > Len(tables[h][1]) THEN BOOLEAN ELSE {TRUE}

NextTable ==
  \/ \E csv \in CsvFiles : csv_read_table(csv)
  \/ \E h \in LiveHandles, offset \in -1..(MaxRows + 1),
        length \in -1..(MaxRows + 1) :
       \E checked \in LibraryBuilds(h, offset) :
         table_slice(h, offset, length, checked)
  \/ \E h \in 0..MaxHandles : table_num_rows(h)
  \/ \E h \in 0..MaxHandles : free_table(h)

SpecTable == InitTable /\ [][NextTable]_vars

NextWrite ==
  \/ \E csv \in CsvFiles : csv_read_table(csv)
  \/ \E h \in 0..MaxHandles : free_table(h)
  \/ \E h \in LiveHandles, writable \in BOOLEAN, compression \in -1..9 :
       parquet_write_table(h, writable, 1, compression)
  \/ \E h \in LiveHandles, writable \in BOOLEAN, compression \in -1..9 :
       feather_write_table(h, writable, 1, compression)

SpecWrite == InitTable /\ [][NextWrite]_vars

----------------------------------------------------------------------------
(* Claims about table handles, checked under SpecTable, and about the      *)
(* writers, checked under SpecWrite                                        *)

\* C3: every bridge entry point that fails reports it through caml_failwith
\* with a message: no call ends the process, lets a native exception escape
\* or raises another host exception.
C3_SingleFailureChannel ==
  ret.outcome # "return" => (ret.outcome = "failwith" /\ ret.msg # "")

\* C7: table_slice with a negative offset or length fails with an argument
\* error and allocates no handle; with offset >= 0, length >= 0 and
\* offset + length <= num_rows it returns a new handle to exactly the rows
\* offset..offset+length-1 of the source and leaves the source as it was.
C7_SliceContract ==
  ret.op = "table_slice" =>
    LET src == pre[args.table][1]
    IN /\ (args.offset < 0 \/ args.length < 0) =>
            /\ ret.outcome = "invalid_argument"
            /\ ret.value = None
            /\ tables = pre
       /\ (/\ args.offset >= 0
           /\ args.length >= 0
           /\ args.offset + args.length <= Len(src)) =>
            /\ ret.outcome = "return"
            /\ Len(tables) = Len(pre) + 1
            /\ Len(tables[Len(tables)][1]) = args.length
            /\ \A i \in 1..args.length :
                 tables[Len(tables)][1][i] = src[args.offset + i]
            /\ \A h \in DOMAIN pre : tables[h] = pre[h]

C7_Witness ==
  /\ ret.op = "table_slice"
  /\ ret.outcome = "return"
  /\ args.offset = 1
  /\ args.length = 2
  /\ Len(pre[args.table][1]) = 3
  /\ tables[Len(tables)] = Some(<<2, 3>>)

\* the codec of each selector: 0 none, 1 Snappy, 2 Gzip, 3 Brotli, 4 Zstd,
\* 5 LZ4, 6 LZ4-frame, 7 LZO, 8 BZ2
SelectorCodec ==
  <<"UNCOMPRESSED", "SNAPPY", "GZIP", "BROTLI", "ZSTD", "LZ4", "LZ4_FRAME",
    "LZO", "BZ2">>

\* C8: the Parquet and Feather table writers compress with the codec of the
\* selector, 0..8 as listed, and with none for every other integer.
C8_CompressionOfInt ==
  (/\ ret.op \in {"parquet_write_table", "feather_write_table"}
   /\ ret.outcome = "return") =>
    ret.value[1].compression =
      IF args.compression \in 0..8
      THEN SelectorCodec[args.compression + 1]
      ELSE "UNCOMPRESSED"

C8_Witness ==
  /\ ret.op = "feather_write_table"
  /\ ret.outcome = "return"
  /\ args.compression = 6
  /\ ret.value[1].compression = "LZ4_FRAME"

=============================================================================
